---------------------------- MODULE Spec2Model ----------------------------
(***************************************************************************)
(* Model of easy-crypto (src/index.js): AES and RSA helpers of a Node.js   *)
(* module plus its letters-only random byte generator.                     *)
(*                                                                         *)
(* Buffers are sequences of bytes (0..255); JavaScript strings are         *)
(* sequences of UTF-16 code units.  A call of a public function is one     *)
(* action; the caller keeps the result of its last call and may feed it    *)
(* to the next call (key and iv to aesEncrypt, ciphertext to the matching  *)
(* decrypt).  SpecConc runs the same functions one statement at a time     *)
(* for two callers at once.                                                *)
(***************************************************************************)
EXTENDS Integers, Sequences, FiniteSets, TLC

VARIABLES
    op,      \* name of the public function called last, "none" when idle
    args,    \* the arguments of that call
    res,     \* its outcome: returned value or thrown error
    obs,     \* what the call did inside: sizes asked of getRandomBytes,
             \* the buffer handed to the RSA primitive
    sent,    \* the encrypt call whose ciphertext a decrypt call was given
    tasks,   \* the calls in progress: for each caller its call, the stack of
             \* functions entered, the draws made, the outcome
    locals   \* the variables of the functions entered, frame by frame

vars == <<op, args, res, obs, sent, tasks, locals>>

-----------------------------------------------------------------------------
(* Bounds of the model *)

\* number of letter indices 0..NumDraws-1 the random source may return,
\* besides the last one (25)
NumDraws == 1
\* period of the sequence of draws of Math.random within one call
TapeLen == 2
\* largest size asked of getRandomBytes / getRandomString directly
MaxSize == 17

-----------------------------------------------------------------------------
(* Sequences *)

Min(a, b) == IF a < b THEN a ELSE b

Take(s, n) == SubSeq(s, 1, Min(n, Len(s)))

Drop(s, n) == SubSeq(s, n + 1, Len(s))

Zeros(n) == [i \in 1..n |-> 0]

\* s occurs in t at (1-based) position q
MatchAt(t, s, q) ==
    /\ q >= 1
    /\ q + Len(s) - 1 <= Len(t)
    /\ \A i \in 1..Len(s) : t[q + i - 1] = s[i]

Occurs(t, s) == \E q \in 1..(Len(t) + 1) : MatchAt(t, s, q)

-----------------------------------------------------------------------------
(* JavaScript values and outcomes of calls *)

JSString(s) == [kind |-> "string", data |-> s]
JSBuffer(b) == [kind |-> "buffer", data |-> b]
JSUndefined == [kind |-> "undefined", data |-> <<>>]

Return(v) == [threw |-> FALSE, error |-> "", value |-> v]
Throw(e) == [threw |-> TRUE, error |-> e, value |-> JSUndefined]

\* the idle caller: no call, no arguments, nothing observed
NoArgs == [none |-> TRUE]
NoObs ==
    [randSizes |-> <<>>, primitiveCalled |-> FALSE, primitiveIn |-> <<>>,
     decrypted |-> FALSE, decryptedData |-> <<>>]
NoCall == Return(JSUndefined)


-----------------------------------------------------------------------------
(* Text encodings of Node's Buffer, as the code uses them:                 *)
(* Buffer.from(string[, encoding]), buffer.write(string) and               *)
(* buffer.toString(encoding).                                              *)

ReplacementChar == 65533

IsCont(b) == b >= 128 /\ b <= 191

\* the number of values below 128 that s begins with: ASCII stands for
\* itself in UTF-8, as a code unit and as a byte
AsciiRun(s) ==
    IF \A i \in 1..Len(s) : s[i] < 128 THEN Len(s)
    ELSE (CHOOSE i \in 1..Len(s) : s[i] >= 128 /\ \A j \in 1..(i - 1) : s[j] < 128)
         - 1

\* Buffer.from(str) / Buffer.from(str, 'utf8'): UTF-8 bytes of a string of
\* UTF-16 code units; a lone surrogate is encoded as U+FFFD
RECURSIVE Utf8Encode(_)
Utf8Encode(str) ==
    IF str = <<>> THEN <<>>
    ELSE LET u == str[1] IN
         IF u < 128
         THEN Take(str, AsciiRun(str)) \o Utf8Encode(Drop(str, AsciiRun(str)))
         ELSE IF u < 2048
              THEN <<192 + (u \div 64), 128 + (u % 64)>> \o Utf8Encode(Tail(str))
         ELSE IF u >= 55296 /\ u <= 56319 /\ Len(str) >= 2
                 /\ str[2] >= 56320 /\ str[2] <= 57343
              THEN LET cp == 65536 + (u - 55296) * 1024 + (str[2] - 56320) IN
                   <<240 + (cp \div 262144), 128 + ((cp \div 4096) % 64),
                     128 + ((cp \div 64) % 64), 128 + (cp % 64)>>
                   \o Utf8Encode(Tail(Tail(str)))
         ELSE IF u >= 55296 /\ u <= 57343
              THEN <<239, 191, 189>> \o Utf8Encode(Tail(str))
         ELSE <<224 + (u \div 4096), 128 + ((u \div 64) % 64), 128 + (u % 64)>>
              \o Utf8Encode(Tail(str))

\* the second byte a lead byte of a 3- or 4-byte sequence accepts
SecondOk(b1, b2) ==
    CASE b1 = 224 -> b2 >= 160 /\ b2 <= 191
      [] b1 = 237 -> b2 >= 128 /\ b2 <= 159
      [] b1 = 240 -> b2 >= 144 /\ b2 <= 191
      [] b1 = 244 -> b2 >= 128 /\ b2 <= 143
      [] OTHER -> IsCont(b2)

\* buf.toString('utf8'): every maximal ill-formed subsequence becomes one
\* U+FFFD; a code point above U+FFFF becomes a surrogate pair
RECURSIVE Utf8Decode(_)
Utf8Decode(b) ==
    IF b = <<>> THEN <<>>
    ELSE LET b1 == b[1]
             n == Len(b)
         IN
         IF b1 < 128
         THEN Take(b, AsciiRun(b)) \o Utf8Decode(Drop(b, AsciiRun(b)))
         ELSE IF b1 >= 194 /\ b1 <= 223
              THEN IF n >= 2 /\ IsCont(b[2])
                   THEN <<(b1 - 192) * 64 + (b[2] - 128)>> \o Utf8Decode(Drop(b, 2))
                   ELSE <<ReplacementChar>> \o Utf8Decode(Drop(b, 1))
         ELSE IF b1 >= 224 /\ b1 <= 239
              THEN IF n >= 2 /\ SecondOk(b1, b[2])
                   THEN IF n >= 3 /\ IsCont(b[3])
                        THEN <<(b1 - 224) * 4096 + (b[2] - 128) * 64 + (b[3] - 128)>>
                             \o Utf8Decode(Drop(b, 3))
                        ELSE <<ReplacementChar>> \o Utf8Decode(Drop(b, 2))
                   ELSE <<ReplacementChar>> \o Utf8Decode(Drop(b, 1))
         ELSE IF b1 >= 240 /\ b1 <= 244
              THEN IF n >= 2 /\ SecondOk(b1, b[2])
                   THEN IF n >= 3 /\ IsCont(b[3])
                        THEN IF n >= 4 /\ IsCont(b[4])
                             THEN LET cp == (b1 - 240) * 262144 + (b[2] - 128) * 4096
                                            + (b[3] - 128) * 64 + (b[4] - 128) - 65536
                                  IN <<55296 + (cp \div 1024), 56320 + (cp % 1024)>>
                                     \o Utf8Decode(Drop(b, 4))
                             ELSE <<ReplacementChar>> \o Utf8Decode(Drop(b, 3))
                        ELSE <<ReplacementChar>> \o Utf8Decode(Drop(b, 2))
                   ELSE <<ReplacementChar>> \o Utf8Decode(Drop(b, 1))
         ELSE <<ReplacementChar>> \o Utf8Decode(Drop(b, 1))

\* buf.toString('latin1'): one code unit per byte
Latin1Decode(b) == b

\* Buffer.from(str, 'latin1'): the low byte of every code unit
Latin1Encode(str) == [i \in 1..Len(str) |-> str[i] % 256]

HexDigit(d) == IF d < 10 THEN 48 + d ELSE 87 + d

\* value of a hexadecimal digit character, -1 when it is none
HexValue(c) ==
    IF c >= 48 /\ c <= 57 THEN c - 48
    ELSE IF c >= 97 /\ c <= 102 THEN c - 87
    ELSE IF c >= 65 /\ c <= 70 THEN c - 55
    ELSE -1

\* buf.toString('hex')
HexEncode(b) ==
    [i \in 1..(2 * Len(b)) |->
        IF i % 2 = 1 THEN HexDigit(b[(i + 1) \div 2] \div 16)
        ELSE HexDigit(b[i \div 2] % 16)]

\* the j-th pair of characters of str is a pair of hexadecimal digits
HexPairOk(str, j) == HexValue(str[2 * j - 1]) >= 0 /\ HexValue(str[2 * j]) >= 0

\* Buffer.from(str, 'hex'): stops at the first pair that is not hexadecimal
HexDecode(str) ==
    LET pairs == Len(str) \div 2
        good == IF \A j \in 1..pairs : HexPairOk(str, j) THEN pairs
                ELSE (CHOOSE j \in 1..pairs :
                         /\ ~HexPairOk(str, j)
                         /\ \A h \in 1..(j - 1) : HexPairOk(str, h)) - 1
    IN [j \in 1..good |->
           HexValue(str[2 * j - 1]) * 16 + HexValue(str[2 * j])]

Base64Char(i) ==
    IF i < 26 THEN 65 + i
    ELSE IF i < 52 THEN 71 + i
    ELSE IF i < 62 THEN i - 4
    ELSE IF i = 62 THEN 43 ELSE 47

\* value of a base64 (or base64url) character, -1 when it is none
Base64Value(c) ==
    IF c >= 65 /\ c <= 90 THEN c - 65
    ELSE IF c >= 97 /\ c <= 122 THEN c - 71
    ELSE IF c >= 48 /\ c <= 57 THEN c + 4
    ELSE IF c = 43 \/ c = 45 THEN 62
    ELSE IF c = 47 \/ c = 95 THEN 63
    ELSE -1

\* the byte at position i of b, 0 past its end
ByteAt(b, i) == IF i <= Len(b) THEN b[i] ELSE 0

\* the j-th (0-based) base64 digit of the group of 3 bytes starting at i
Base64Sextet(b, i, j) ==
    CASE j = 0 -> ByteAt(b, i) \div 4
      [] j = 1 -> (ByteAt(b, i) % 4) * 16 + (ByteAt(b, i + 1) \div 16)
      [] j = 2 -> (ByteAt(b, i + 1) % 16) * 4 + (ByteAt(b, i + 2) \div 64)
      [] OTHER -> ByteAt(b, i + 2) % 64

\* buf.toString('base64'), padded with '='
Base64Encode(b) ==
    [c \in 1..(4 * ((Len(b) + 2) \div 3)) |->
        LET i == 3 * ((c - 1) \div 4) + 1
            j == (c - 1) % 4
        IN IF i + j - 1 > Len(b) /\ j >= 2 THEN 61
           ELSE Base64Char(Base64Sextet(b, i, j))]

IsBase64Digit(c) == Base64Value(c) >= 0

\* the base64 digits of a string up to its first '=', other characters skipped
Base64Digits(str) ==
    LET stop == IF \E i \in 1..Len(str) : str[i] = 61
                THEN CHOOSE i \in 1..Len(str) :
                         str[i] = 61 /\ \A h \in 1..(i - 1) : str[h] # 61
                ELSE Len(str) + 1
        digits == SelectSeq(SubSeq(str, 1, stop - 1), IsBase64Digit)
    IN [i \in 1..Len(digits) |-> Base64Value(digits[i])]

\* the bytes of a sequence of base64 digits: 3 for every 4 digits, 2 for
\* 3 digits left over, 1 for 2
Base64Groups(d) ==
    LET full == Len(d) \div 4
        left == Len(d) % 4
        n == 3 * full + (IF left >= 2 THEN left - 1 ELSE 0)
    IN [k \in 1..n |->
           LET g == 4 * ((k - 1) \div 3)
               j == (k - 1) % 3
           IN CASE j = 0 -> d[g + 1] * 4 + (d[g + 2] \div 16)
                [] j = 1 -> (d[g + 2] % 16) * 16 + (d[g + 3] \div 4)
                [] OTHER -> (d[g + 3] % 4) * 64 + d[g + 4]]

\* Buffer.from(str, 'base64')
Base64Decode(str) == Base64Groups(Base64Digits(str))

\* buf.toString(encoding)
BufferToString(b, encoding) ==
    CASE encoding = "hex" -> HexEncode(b)
      [] encoding = "base64" -> Base64Encode(b)
      [] encoding = "latin1" -> Latin1Decode(b)
      [] OTHER -> Utf8Decode(b)

\* Buffer.from(str, encoding)
BufferFrom(str, encoding) ==
    CASE encoding = "hex" -> HexDecode(str)
      [] encoding = "base64" -> Base64Decode(str)
      [] encoding = "latin1" -> Latin1Encode(str)
      [] OTHER -> Utf8Encode(str)

-----------------------------------------------------------------------------
(* The random byte source: getRandomString and getRandomBytes              *)

\* not the program's letters, a faulty variant: an alphabet that holds "|" in place of "a"
lettersWithBar ==
    <<124, 98, 99, 100, 101, 102, 103, 104, 105, 106, 107, 108, 109,
      110, 111, 112, 113, 114, 115, 116, 117, 118, 119, 120, 121, 122>>

\* const letters = 'abcdefghijklmnopqrstuvwxyz'
letters == <<97, 98, 99, 100, 101, 102, 103, 104, 105, 106, 107, 108, 109,
             110, 111, 112, 113, 114, 115, 116, 117, 118, 119, 120, 121, 122>>

IsLetter(b) == b >= 97 /\ b <= 122

\* the values Math.floor(Math.random() * 26) takes in the model
Draws == (0..(NumDraws - 1)) \cup {25}

\* the draws of one call: a sequence of period TapeLen
Tapes == [1..TapeLen -> Draws]

\* the i-th (0-based) value of Math.floor(Math.random() * 26) in a call
Draw(tape, i) == tape[(i % Len(tape)) + 1]

\* the first `count` draws of a call
DrawsMade(tape, count) == [i \in 1..count |-> Draw(tape, i - 1)]

\* the string after `count` passes of the while loop of getRandomString,
\* `drawn` draws having been made before the call:
\*   str += letters[Math.floor(Math.random() * 26)]; count++
LoopString(count, tape, drawn) ==
    [i \in 1..count |-> letters[Draw(tape, drawn + i - 1) + 1]]

\* not the program's LoopPasses, a faulty variant: count starting at 1
LoopPassesFromOne(length) == IF 1 < length THEN length - 1 ELSE 0

\* the number of passes of while(count < length), count starting at 0
LoopPasses(length) == IF 0 < length THEN length ELSE 0

getRandomString(length, tape, drawn) ==
    LoopString(LoopPasses(length), tape, drawn)

\* Buffer.alloc(size): zero-filled; a negative size is rejected
BufferAlloc(size) ==
    IF size < 0 THEN Throw("RangeError") ELSE Return(JSBuffer(Zeros(size)))

\* buffer.write(str): the UTF-8 bytes of str from offset 0, cut at the
\* buffer's length
BufferWrite(buffer, str) ==
    LET bytes == Utf8Encode(str)
        n == Min(Len(bytes), Len(buffer))
    IN Take(bytes, n) \o Drop(buffer, n)

getRandomBytes(size, tape, drawn) ==
    LET buffer == BufferAlloc(size) IN
    IF buffer.threw THEN buffer
    ELSE LET str == getRandomString(size, tape, drawn) IN
         Return(JSBuffer(BufferWrite(buffer.value.data, str)))

-----------------------------------------------------------------------------
(* AES key material *)

\* the argument left out of a call
Omitted == -1

DefaultKeyLength == 256

IvBits == 128

\* not the program's genAESKeyAndIv, a faulty variant: the iv as long as the key
genAESKeyAndIvSameLength(keyLengthArg, tape) ==
    LET keyLength == IF keyLengthArg = Omitted THEN DefaultKeyLength ELSE keyLengthArg
        key == getRandomBytes(keyLength \div 8, tape, 0)
        iv == getRandomBytes(keyLength \div 8, tape, keyLength \div 8)
    IN [out |-> Return([kind |-> "object",
                        key |-> key.value.data, iv |-> iv.value.data]),
        randSizes |-> <<keyLength \div 8, keyLength \div 8>>]

\* function genAESKeyAndIv(keyLength = 256); keyLength is a multiple of 8
genAESKeyAndIv(keyLengthArg, tape) ==
    LET keyLength == IF keyLengthArg = Omitted THEN DefaultKeyLength ELSE keyLengthArg
        key == getRandomBytes(keyLength \div 8, tape, 0)
    IN IF key.threw THEN [out |-> key, randSizes |-> <<keyLength \div 8>>]
       ELSE LET iv == getRandomBytes(IvBits \div 8, tape, keyLength \div 8) IN
            [out |-> IF iv.threw THEN iv
                     ELSE Return([kind |-> "object",
                                  key |-> key.value.data, iv |-> iv.value.data]),
             randSizes |-> <<keyLength \div 8, IvBits \div 8>>]

-----------------------------------------------------------------------------
(* The collaborator of the AES calls: crypto.createCipheriv and            *)
(* crypto.createDecipheriv for the aes-*-cbc algorithms, a block cipher of *)
(* 16-byte blocks, chained, with PKCS#7 padding.  The transform of one     *)
(* block stands in for AES: a permutation of the blocks chosen by the key. *)
(* update() returns the blocks that are complete, final() the rest; with   *)
(* an output encoding both go through one string decoder, which keeps the  *)
(* bytes that do not yet make a whole unit of text.                        *)

BlockSize == 16

\* the key length in bytes an algorithm asks for, 0 for an unknown one
KeyBytes(algorithm) ==
    CASE algorithm = "aes-128-cbc" -> 16
      [] algorithm = "aes-192-cbc" -> 24
      [] algorithm = "aes-256-cbc" -> 32
      [] OTHER -> 0

\* crypto.createCipheriv(algorithm, key, iv) and createDecipheriv
createCipheriv(algorithm, key, iv) ==
    IF KeyBytes(algorithm) = 0 THEN Throw("Unknown cipher")
    ELSE IF Len(key) # KeyBytes(algorithm) THEN Throw("Invalid key length")
    ELSE IF Len(iv) # BlockSize THEN Throw("Invalid IV length")
    ELSE Return([kind |-> "cipher", key |-> key, iv |-> iv])

\* what the byte at position i of a block is moved by under a key
RoundKey(key, i) ==
    (key[((i - 1) % Len(key)) + 1] + i * (1 + key[1] + key[Len(key)])) % 256

BlockEncrypt(key, block) ==
    [i \in 1..BlockSize |-> (block[i] + RoundKey(key, i)) % 256]

BlockDecrypt(key, block) ==
    [i \in 1..BlockSize |-> (block[i] + 256 - RoundKey(key, i)) % 256]

Chain(block, previous) == [i \in 1..BlockSize |-> (block[i] + previous[i]) % 256]

Unchain(block, previous) ==
    [i \in 1..BlockSize |-> (block[i] + 256 - previous[i]) % 256]

\* the blocks of data (a multiple of 16 bytes) encrypted in a chain
RECURSIVE CbcEncrypt(_, _, _)
CbcEncrypt(key, iv, data) ==
    IF Len(data) < BlockSize THEN <<>>
    ELSE LET c == BlockEncrypt(key, Chain(Take(data, BlockSize), iv)) IN
         c \o CbcEncrypt(key, c, Drop(data, BlockSize))

RECURSIVE CbcDecrypt(_, _, _)
CbcDecrypt(key, iv, data) ==
    IF Len(data) < BlockSize THEN <<>>
    ELSE LET c == Take(data, BlockSize) IN
         Unchain(BlockDecrypt(key, c), iv) \o CbcDecrypt(key, c, Drop(data, BlockSize))

Pkcs7Pad(data) ==
    LET v == BlockSize - (Len(data) % BlockSize) IN
    data \o [i \in 1..v |-> v]

\* what cipher.update(content) and cipher.final() return
CipherOutput(cipher, content) ==
    LET all == CbcEncrypt(cipher.key, cipher.iv, Pkcs7Pad(content))
        done == BlockSize * (Len(content) \div BlockSize)
    IN [update |-> Take(all, done), final |-> Return(JSBuffer(Drop(all, done)))]

\* what decipher.update(content) and decipher.final() return: the last
\* complete block is held back for final(), which takes the padding off
DecipherOutput(cipher, content) ==
    LET blocks == Len(content) \div BlockSize
        whole == Len(content) % BlockSize = 0 /\ blocks > 0
        plain == CbcDecrypt(cipher.key, cipher.iv, content)
        done == BlockSize * (IF whole THEN blocks - 1 ELSE blocks)
        last == Drop(plain, done)
        v == last[BlockSize]
    IN [update |-> Take(plain, done),
        final |->
            IF ~whole THEN Throw("wrong final block length")
            ELSE IF v < 1 \/ v > BlockSize
                    \/ \E i \in (BlockSize - v + 1)..BlockSize : last[i] # v
                 THEN Throw("bad decrypt")
            ELSE Return(JSBuffer(Take(last, BlockSize - v)))]

\* the bytes a lead byte announces, 0 for a byte that leads nothing
Utf8Need(b) ==
    IF b >= 194 /\ b <= 223 THEN 2
    ELSE IF b >= 224 /\ b <= 239 THEN 3
    ELSE IF b >= 240 /\ b <= 244 THEN 4
    ELSE 0

\* the bytes of b from position p on begin a character and are too few
Utf8Incomplete(b, p) ==
    LET have == Len(b) - p + 1 IN
    /\ p >= 1
    /\ have < Utf8Need(b[p])
    /\ have >= 2 => SecondOk(b[p], b[p + 1])
    /\ have >= 3 => IsCont(b[p + 2])

\* the length of the incomplete character b ends with
Utf8Pending(b) ==
    IF \E t \in 1..3 : Utf8Incomplete(b, Len(b) - t + 1)
    THEN CHOOSE t \in 1..3 : Utf8Incomplete(b, Len(b) - t + 1)
    ELSE 0

\* the bytes of `bytes` a string decoder keeps for the next call
DecoderPending(encoding, bytes) ==
    CASE encoding = "base64" -> Len(bytes) % 3
      [] encoding = "utf8" -> Utf8Pending(bytes)
      [] OTHER -> 0

\* not the program's DecoderWrite, a faulty variant: every piece rendered on its own
DecoderWriteWhole(encoding, bytes) ==
    [text |-> BufferToString(bytes, encoding), pending |-> <<>>]

\* decoder.write(bytes): the text of the whole units, the bytes kept
DecoderWrite(encoding, bytes) ==
    LET keep == DecoderPending(encoding, bytes) IN
    [text |-> BufferToString(Take(bytes, Len(bytes) - keep), encoding),
     pending |-> Drop(bytes, Len(bytes) - keep)]

\* decoder.end(bytes): the text of the bytes kept and of bytes
DecoderEnd(encoding, pending, bytes) == BufferToString(pending \o bytes, encoding)

\* encryptedData = update(...); encryptedData += final(...)
UpdateThenFinal(output, encoding) ==
    IF output.final.threw THEN output.final
    ELSE LET first == DecoderWrite(encoding, output.update) IN
         Return(JSString(first.text
                         \o DecoderEnd(encoding, first.pending,
                                       output.final.value.data)))

-----------------------------------------------------------------------------
(* aesEncrypt and aesDecrypt *)

\* an options field left out takes its default
Default(value, default) == IF value = "undefined" THEN default ELSE value

\* content is a Buffer, so inputEncoding is not used
aesEncrypt(content, algorithm, key, iv, outputEncodingArg) ==
    LET outputEncoding == Default(outputEncodingArg, "base64")
        cipheriv == createCipheriv(algorithm, key, iv)
    IN IF cipheriv.threw THEN cipheriv
       ELSE UpdateThenFinal(CipherOutput(cipheriv.value, content), outputEncoding)

aesDecrypt(content, algorithm, key, iv, inputEncodingArg, outputEncodingArg) ==
    LET inputEncoding == Default(inputEncodingArg, "base64")
        outputEncoding == Default(outputEncodingArg, "utf8")
        decipheriv == createCipheriv(algorithm, key, iv)
    IN IF decipheriv.threw THEN decipheriv
       ELSE UpdateThenFinal(DecipherOutput(decipheriv.value,
                                           BufferFrom(content, inputEncoding)),
                            outputEncoding)

-----------------------------------------------------------------------------
(* The collaborators of the RSA calls: key files and the raw RSA primitive *)
(* (crypto.publicEncrypt / crypto.privateDecrypt with RSA_NO_PADDING).     *)
(* The keys are textbook RSA keys with a modulus of 24 bits, so that the   *)
(* modulus has 3 bytes and the arithmetic is the primitive's own.          *)

KeyFiles ==
    [a |-> [bits |-> 24, n |-> 9493579, e |-> 17, d |-> 573],
     b |-> [bits |-> 24, n |-> 16717061, e |-> 17, d |-> 833]]

KeyPaths == {"a", "b", "missing"}

\* fs.readFileSync(path)
ReadFileSync(path) ==
    IF path \in DOMAIN KeyFiles THEN Return([kind |-> "key", key |-> KeyFiles[path]])
    ELSE Throw("ENOENT")

ModulusBytes(key) == key.bits \div 8

\* a * b mod n for a, b < n < 2^24, by the base-64 digits of a
MulMod(a, b, n) ==
    LET r3 == ((a \div 262144) * b) % n
        r2 == (r3 * 64 + ((a \div 4096) % 64) * b) % n
        r1 == (r2 * 64 + ((a \div 64) % 64) * b) % n
    IN (r1 * 64 + (a % 64) * b) % n

\* x^k mod n by squaring; each intermediate value is computed before it
\* is used
RECURSIVE ModExp(_, _, _)
ModExp(x, k, n) ==
    IF k = 0 THEN 1 % n
    ELSE LET h == ModExp(x, k \div 2, n) IN
         IF h < 0 THEN 0
         ELSE LET sq == MulMod(h, h, n) IN
              IF sq < 0 THEN 0
              ELSE IF k % 2 = 1 THEN MulMod(sq, x % n, n) ELSE sq

\* the number a buffer of at most 3 bytes stands for, big-endian
RECURSIVE OS2IP(_)
OS2IP(b) == IF b = <<>> THEN 0 ELSE OS2IP(Take(b, Len(b) - 1)) * 256 + b[Len(b)]

\* the big-endian bytes of x, left-padded with zeros to len bytes
RECURSIVE I2OSP(_, _)
I2OSP(x, len) == IF len = 0 THEN <<>> ELSE I2OSP(x \div 256, len - 1) \o <<x % 256>>

\* crypto.publicEncrypt({key, padding: RSA_NO_PADDING}, data): the number
\* the data stands for, raised to e modulo n, as bytes; the number and the
\* power are computed before they are used
publicEncrypt(key, data) ==
    IF Len(data) # ModulusBytes(key) THEN Throw("data size does not fit the key size")
    ELSE LET m == OS2IP(data) IN
         IF m >= key.n THEN Throw("data too large for modulus")
         ELSE LET c == ModExp(m, key.e, key.n) IN
              IF c >= key.n THEN Throw("data too large for modulus")
              ELSE Return(JSBuffer(I2OSP(c, ModulusBytes(key))))

\* crypto.privateDecrypt({key, padding: RSA_NO_PADDING}, data)
privateDecrypt(key, data) ==
    IF Len(data) > ModulusBytes(key) THEN Throw("data greater than mod len")
    ELSE LET c == OS2IP(data) IN
         IF c >= key.n THEN Throw("data too large for modulus")
         ELSE LET m == ModExp(c, key.d, key.n) IN
              IF m >= key.n THEN Throw("data too large for modulus")
              ELSE Return(JSBuffer(I2OSP(m, ModulusBytes(key))))

-----------------------------------------------------------------------------
(* String.prototype.split(separator) for a string separator *)

\* the loop of split: p is the start of the segment being collected, q the
\* position tried (both 0-based)
RECURSIVE SplitLoop(_, _, _, _, _)
SplitLoop(S, R, p, q, A) ==
    IF q >= Len(S) THEN Append(A, SubSeq(S, p + 1, Len(S)))
    ELSE IF MatchAt(S, R, q + 1) /\ q + Len(R) # p
         THEN SplitLoop(S, R, q + Len(R), q + Len(R), Append(A, SubSeq(S, p + 1, q)))
         ELSE SplitLoop(S, R, p, q + 1, A)

Split(S, R) ==
    IF Len(S) = 0 THEN (IF Len(R) = 0 THEN <<>> ELSE <<S>>)
    ELSE SplitLoop(S, R, 0, 0, <<>>)

\* array[i] for a 0-based index i: undefined past the end
Index(array, i) ==
    IF i + 1 <= Len(array) THEN JSString(array[i + 1]) ELSE JSUndefined

-----------------------------------------------------------------------------
(* rsaEncrypt and rsaDecrypt *)

\* not the program's restLength, a faulty variant: the delimiter counted in characters, not bytes
restLengthInChars(content, splitBar, keyLength) ==
    (keyLength \div 8) - Len(splitBar) - Len(content)

\* const restLength = keyLength/8 - splitBarBuffer.length - content.length
\* (keyLength is a multiple of 8)
restLength(content, splitBar, keyLength) ==
    (keyLength \div 8) - Len(Utf8Encode(splitBar)) - Len(content)

\* not the program's contentNeedCrypt, a faulty variant: the delimiter after the content
contentNeedCryptBarLast(filler, splitBar, content) ==
    filler \o content \o Utf8Encode(splitBar)

\* Buffer.concat([getRandomBytes(restLength), splitBarBuffer, content])
contentNeedCrypt(filler, splitBar, content) ==
    filler \o Utf8Encode(splitBar) \o content

rsaEncrypt(content, splitBar, pubKeyPath, keyLength, outputEncodingArg, tape) ==
    LET outputEncoding == Default(outputEncodingArg, "base64")
        rest == restLength(content, splitBar, keyLength)
        filler == getRandomBytes(rest, tape, 0)
        seen == [NoObs EXCEPT !.randSizes = <<rest>>]
    IN IF filler.threw THEN [out |-> filler, obs |-> seen]
       ELSE LET padded == contentNeedCrypt(filler.value.data, splitBar, content)
                file == ReadFileSync(pubKeyPath)
            IN IF file.threw THEN [out |-> file, obs |-> seen]
               ELSE LET enc == publicEncrypt(file.value.key, padded) IN
                    [out |-> IF enc.threw THEN enc
                             ELSE Return(JSString(BufferToString(enc.value.data,
                                                                 outputEncoding))),
                     obs |-> [seen EXCEPT !.primitiveCalled = TRUE,
                                          !.primitiveIn = padded]]

\* lines 112-116: decode the content, decrypt it with the private key
rsaDecryptBlock(content, priKeyPath, inputEncodingArg) ==
    LET inputEncoding == Default(inputEncodingArg, "base64")
        contentNeedDecrypt == BufferFrom(content, inputEncoding)
        file == ReadFileSync(priKeyPath)
    IN IF file.threw THEN file
       ELSE privateDecrypt(file.value.key, contentNeedDecrypt)

\* line 116: the decrypted block rendered as text
decryptedData(block, outputEncodingArg) ==
    BufferToString(block.value.data, Default(outputEncodingArg, "utf8"))

\* not the program's rsaDecryptResult, a faulty variant: the last element of the split
rsaDecryptResultLast(block, splitBar, outputEncodingArg) ==
    IF block.threw THEN block
    ELSE LET parts == Split(BufferToString(block.value.data,
                                           Default(outputEncodingArg, "utf8")),
                            splitBar)
         IN Return(Index(parts, Len(parts) - 1))

\* lines 118-120: split the text, take element 1
rsaDecryptResult(block, splitBar, outputEncodingArg) ==
    IF block.threw THEN block
    ELSE Return(Index(Split(decryptedData(block, outputEncodingArg), splitBar), 1))

rsaDecrypt(content, splitBar, priKeyPath, outputEncodingArg, inputEncodingArg) ==
    rsaDecryptResult(rsaDecryptBlock(content, priKeyPath, inputEncodingArg),
                     splitBar, outputEncodingArg)

-----------------------------------------------------------------------------
(* Inputs of the model *)

\* sizes asked of the random source directly
Sizes == (-1)..MaxSize

\* AES key lengths in bits asked of genAESKeyAndIv
KeyLengthArgs == {Omitted, 0, 8, 128, 192, 256}

\* delimiters (strings): "", "|", "||", "a", "a|", "e-acute" (U+00E9)
SplitBars == {<<>>, <<124>>, <<124, 124>>, <<97>>, <<97, 124>>, <<233>>}

\* payloads (buffers): empty, "h", "a", "hi", "x|", "ax" (text holding a
\* delimiter), bytes that are no UTF-8 text, the UTF-8 bytes of e-acute,
\* and "hey" (3 bytes)
Contents ==
    {<<>>, <<104>>, <<97>>, <<104, 105>>, <<120, 124>>, <<97, 120>>,
     <<255>>, <<0, 255>>, <<195, 169>>, <<104, 101, 121>>}

\* the keyLength option of rsaEncrypt, in bits
KeyLengths == {16, 24, 32}

\* encodings of a ciphertext; "undefined" is the option left out
CipherEncodings == {"undefined", "hex"}

\* encodings of a decrypted text
TextEncodings == {"undefined", "latin1"}

\* the algorithm names given to aesEncrypt
Algorithms == {"aes-128-cbc", "aes-256-cbc", "aes-128-xyz"}

\* payloads of aesEncrypt: empty, "h", "hi", bytes 0 and 255, 16 bytes (one
\* whole block), and 17 bytes whose last two are the UTF-8 bytes of
\* e-acute, one on each side of the block boundary
AesContents ==
    {<<>>, <<104>>, <<104, 105>>, <<0, 255>>,
     [i \in 1..16 |-> 96 + i],
     [i \in 1..15 |-> 96 + i] \o <<195, 169>>}

\* encodings of a decrypted text given to aesDecrypt
AesTextEncodings == {"undefined", "latin1", "hex"}

\* a key or iv that differs from the right one in its first byte
Altered(bytes) ==
    IF bytes = <<>> THEN bytes ELSE <<(bytes[1] + 1) % 256>> \o Tail(bytes)

\* what reaches the decrypting side: the ciphertext, or the ciphertext
\* with its last character lost
Received(ciphertext) ==
    {ciphertext, Take(ciphertext, Len(ciphertext) - 1)}


-----------------------------------------------------------------------------
(* Calls in progress.  Two callers run calls of the seven functions one    *)
(* statement at a time, in any interleaving.  A call is a stack of frames, *)
(* one for each function entered and not yet left; pc is the source line   *)
(* of the statement to run next.  The variables a function declares are    *)
(* created when it is entered and belong to that activation.  No function  *)
(* catches an exception, so a throw ends the whole call.                   *)

Tasks == {1, 2}

\* the deepest nesting: rsaEncrypt -> getRandomBytes -> getRandomString
Depths == 1..3

\* not the program's FrameId, a faulty variant: the variables of a function held once for all callers
FrameIdShared(t, depth) == <<1, depth>>

\* where the variables of the frame at `depth` of task t's stack are held
FrameId(t, depth) == <<t, depth>>

\* the variables of a frame before the function sets them
NoLocals ==
    [length |-> 0, count |-> 0, str |-> <<>>, size |-> 0, buffer |-> <<>>,
     keyLength |-> 0, key |-> <<>>, iv |-> <<>>,
     cipheriv |-> [key |-> <<>>, iv |-> <<>>, final |-> NoCall, pending |-> <<>>],
     encryptedData |-> <<>>, decryptedData |-> <<>>,
     splitBarBuffer |-> <<>>, restLength |-> 0, contentNeedCrypt |-> <<>>,
     contentNeedDecrypt |-> <<>>, res |-> JSUndefined, ret |-> JSUndefined]

Idle ==
    [status |-> "idle", call |-> [fn |-> "none", a |-> NoArgs, tape |-> <<0>>],
     stack |-> <<>>, drawn |-> 0, result |-> NoCall, overlapped |-> FALSE]

-----------------------------------------------------------------------------
(* The calls *)

Init ==
    /\ op = "none"
    /\ args = NoArgs
    /\ res = NoCall
    /\ obs = NoObs
    /\ sent = NoArgs
    /\ tasks = [t \in Tasks |-> Idle]
    /\ locals = [c \in Tasks \X Depths |-> NoLocals]

\* the caller drops the result of its last call
Reset ==
    /\ UNCHANGED <<tasks, locals>>
    /\ op # "none"
    /\ op' = "none"
    /\ args' = NoArgs
    /\ res' = NoCall
    /\ obs' = NoObs
    /\ sent' = NoArgs

CallGetRandomString ==
    /\ UNCHANGED <<tasks, locals>>
    /\ op = "none"
    /\ \E length \in Sizes, tape \in Tapes :
         /\ op' = "getRandomString"
         /\ args' = [length |-> length, draws |-> DrawsMade(tape, length)]
         /\ res' = Return(JSString(getRandomString(length, tape, 0)))
         /\ obs' = NoObs
         /\ sent' = NoArgs

CallGetRandomBytes ==
    /\ UNCHANGED <<tasks, locals>>
    /\ op = "none"
    /\ \E size \in Sizes, tape \in Tapes :
         /\ op' = "getRandomBytes"
         /\ args' = [size |-> size, draws |-> DrawsMade(tape, size)]
         /\ res' = getRandomBytes(size, tape, 0)
         /\ obs' = [NoObs EXCEPT !.randSizes = <<size>>]
         /\ sent' = NoArgs

CallGenAESKeyAndIv ==
    /\ UNCHANGED <<tasks, locals>>
    /\ op = "none"
    /\ \E keyLength \in KeyLengthArgs, tape \in Tapes :
         LET r == genAESKeyAndIv(keyLength, tape) IN
         /\ op' = "genAESKeyAndIv"
         /\ args' = [keyLength |-> keyLength,
                     draws |-> DrawsMade(tape, r.randSizes[1]
                                  + (IF Len(r.randSizes) > 1 THEN r.randSizes[2] ELSE 0))]
         /\ res' = r.out
         /\ obs' = [NoObs EXCEPT !.randSizes = r.randSizes]
         /\ sent' = NoArgs

CallRsaEncrypt ==
    /\ UNCHANGED <<tasks, locals>>
    /\ op = "none"
    /\ \E content \in Contents, splitBar \in SplitBars, pubKeyPath \in KeyPaths,
          keyLength \in KeyLengths, outputEncoding \in CipherEncodings,
          tape \in Tapes :
         LET r == rsaEncrypt(content, splitBar, pubKeyPath, keyLength,
                             outputEncoding, tape)
         IN
         /\ op' = "rsaEncrypt"
         /\ args' = [content |-> content, splitBar |-> splitBar,
                     pubKeyPath |-> pubKeyPath, keyLength |-> keyLength,
                     outputEncoding |-> outputEncoding,
                     draws |-> DrawsMade(tape, restLength(content, splitBar,
                                                          keyLength))]
         /\ res' = r.out
         /\ obs' = r.obs
         /\ sent' = NoArgs

\* the ciphertext of the last rsaEncrypt call is given to rsaDecrypt
CallRsaDecrypt ==
    /\ UNCHANGED <<tasks, locals>>
    /\ op = "rsaEncrypt"
    /\ ~res.threw
    /\ \E content \in Received(res.value.data), priKeyPath \in KeyPaths,
          inputEncoding \in CipherEncodings :
         LET block == rsaDecryptBlock(content, priKeyPath, inputEncoding) IN
         \E splitBar \in SplitBars, outputEncoding \in TextEncodings :
             /\ op' = "rsaDecrypt"
             /\ args' = [content |-> content, splitBar |-> splitBar,
                         priKeyPath |-> priKeyPath,
                         outputEncoding |-> outputEncoding,
                         inputEncoding |-> inputEncoding]
             /\ res' = rsaDecryptResult(block, splitBar, outputEncoding)
             /\ obs' = [NoObs EXCEPT
                          !.primitiveCalled = ~ReadFileSync(priKeyPath).threw,
                          !.decrypted = ~block.threw,
                          !.decryptedData =
                              IF block.threw THEN <<>>
                              ELSE decryptedData(block, outputEncoding)]
             /\ sent' = [call |-> args, ciphertext |-> res.value.data,
                         padded |-> obs.primitiveIn]

\* the key and iv of the last genAESKeyAndIv call are given to aesEncrypt
CallAesEncrypt ==
    /\ UNCHANGED <<tasks, locals>>
    /\ op = "genAESKeyAndIv"
    /\ ~res.threw
    /\ \E content \in AesContents, algorithm \in Algorithms,
          outputEncoding \in CipherEncodings :
         /\ op' = "aesEncrypt"
         /\ args' = [content |-> content, algorithm |-> algorithm,
                     key |-> res.value.key, iv |-> res.value.iv,
                     outputEncoding |-> outputEncoding]
         /\ res' = aesEncrypt(content, algorithm, res.value.key, res.value.iv,
                              outputEncoding)
         /\ obs' = NoObs
         /\ sent' = NoArgs

\* the ciphertext of the last aesEncrypt call is given to aesDecrypt
CallAesDecrypt ==
    /\ UNCHANGED <<tasks, locals>>
    /\ op = "aesEncrypt"
    /\ ~res.threw
    /\ \E content \in Received(res.value.data),
          algorithm \in {"aes-128-cbc", "aes-256-cbc"},
          key \in {args.key, Altered(args.key)},
          iv \in {args.iv, Altered(args.iv)},
          inputEncoding \in CipherEncodings,
          outputEncoding \in AesTextEncodings :
         /\ op' = "aesDecrypt"
         /\ args' = [content |-> content, algorithm |-> algorithm,
                     key |-> key, iv |-> iv,
                     inputEncoding |-> inputEncoding,
                     outputEncoding |-> outputEncoding]
         /\ res' = aesDecrypt(content, algorithm, key, iv, inputEncoding,
                              outputEncoding)
         /\ obs' = NoObs
         /\ sent' = [call |-> args, ciphertext |-> res.value.data,
                     padded |-> <<>>]

-----------------------------------------------------------------------------
(* The statements of the calls in progress *)

\* the first statement of each function
Entry(fn) ==
    CASE fn = "genAESKeyAndIv" -> 13
      [] fn = "aesEncrypt" -> 37
      [] fn = "aesDecrypt" -> 59
      [] fn = "rsaEncrypt" -> 80
      [] fn = "rsaDecrypt" -> 112
      [] fn = "getRandomBytes" -> 129
      [] fn = "getRandomString" -> 141

\* the draws handed to the calls in progress
ConcTapes == {<<0>>, <<25, 0>>}

ConcKey == [i \in 1..16 |-> 97 + (i % 3)]

ConcIv == [i \in 1..16 |-> 122]

ConcRsaCall ==
    [content |-> <<104>>, splitBar |-> <<124>>, pubKeyPath |-> "a",
     keyLength |-> 24, outputEncoding |-> "undefined"]

ConcAesCall ==
    [content |-> <<0, 255>>, algorithm |-> "aes-128-cbc", key |-> ConcKey,
     iv |-> ConcIv, outputEncoding |-> "hex"]

\* the calls the two callers choose from: each function, with arguments it
\* accepts and arguments it fails on
ConcCalls ==
    {[fn |-> "getRandomString", a |-> [length |-> n], tape |-> tape] :
        n \in {0, 2}, tape \in ConcTapes}
    \cup {[fn |-> "getRandomBytes", a |-> [size |-> n], tape |-> tape] :
        n \in {-1, 2}, tape \in ConcTapes}
    \cup {[fn |-> "genAESKeyAndIv", a |-> [keyLength |-> 8], tape |-> tape] :
        tape \in ConcTapes}
    \cup {[fn |-> "rsaEncrypt",
           a |-> [ConcRsaCall EXCEPT !.content = c, !.pubKeyPath = p],
           tape |-> tape] :
        c \in {<<104>>, <<104, 105, 33>>}, p \in {"a", "missing"},
        tape \in ConcTapes}
    \cup {[fn |-> "rsaDecrypt",
           a |-> [content |-> rsaEncrypt(<<104>>, <<124>>, "a", 24, "undefined",
                                         <<0>>).out.value.data,
                  splitBar |-> bar, priKeyPath |-> "a",
                  outputEncoding |-> "undefined", inputEncoding |-> "undefined"],
           tape |-> <<0>>] :
        bar \in {<<124>>, <<33>>}}
    \cup {[fn |-> "aesEncrypt", a |-> [ConcAesCall EXCEPT !.algorithm = g],
           tape |-> <<0>>] :
        g \in {"aes-128-cbc", "aes-256-cbc"}}
    \cup {[fn |-> "aesDecrypt",
           a |-> [content |-> Take(aesEncrypt(<<0, 255>>, "aes-128-cbc", ConcKey,
                                              ConcIv, "hex").value.data, n),
                  algorithm |-> "aes-128-cbc", key |-> ConcKey, iv |-> ConcIv,
                  inputEncoding |-> "hex", outputEncoding |-> "latin1"],
           tape |-> <<0>>] :
        n \in {10, 32}}

\* what a call returns or throws when it runs alone from start to end
Outcome(call) ==
    CASE call.fn = "getRandomString" ->
            Return(JSString(getRandomString(call.a.length, call.tape, 0)))
      [] call.fn = "getRandomBytes" -> getRandomBytes(call.a.size, call.tape, 0)
      [] call.fn = "genAESKeyAndIv" ->
            genAESKeyAndIv(call.a.keyLength, call.tape).out
      [] call.fn = "aesEncrypt" ->
            aesEncrypt(call.a.content, call.a.algorithm, call.a.key, call.a.iv,
                       call.a.outputEncoding)
      [] call.fn = "aesDecrypt" ->
            aesDecrypt(call.a.content, call.a.algorithm, call.a.key, call.a.iv,
                       call.a.inputEncoding, call.a.outputEncoding)
      [] call.fn = "rsaEncrypt" ->
            rsaEncrypt(call.a.content, call.a.splitBar, call.a.pubKeyPath,
                       call.a.keyLength, call.a.outputEncoding, call.tape).out
      [] call.fn = "rsaDecrypt" ->
            rsaDecrypt(call.a.content, call.a.splitBar, call.a.priKeyPath,
                       call.a.outputEncoding, call.a.inputEncoding)

Depth(t) == Len(tasks[t].stack)

Frame(t) == tasks[t].stack[Depth(t)]

\* task t is in function fn at line pc
At(t, fn, pc) ==
    /\ tasks[t].status = "running"
    /\ Frame(t).fn = fn
    /\ Frame(t).pc = pc

\* the variables of the function task t is in
Mine(t) == locals[FrameId(t, Depth(t))]

\* another caller is in the middle of a call
Overlaps(t) == \E u \in Tasks \ {t} : tasks[u].status = "running"

\* the statement is done: on to line pc with the variables as given
Goto(t, pc, mine) ==
    /\ tasks' = [tasks EXCEPT
                   ![t].stack[Depth(t)] = [fn |-> Frame(t).fn, pc |-> pc,
                                           called |-> FALSE],
                   ![t].overlapped = @ \/ Overlaps(t)]
    /\ locals' = [locals EXCEPT ![FrameId(t, Depth(t))] = mine]

\* the statement calls fn: a frame with new variables, the parameters set
Enter(t, fn, params) ==
    /\ tasks' = [tasks EXCEPT
                   ![t].stack = [@ EXCEPT ![Depth(t)].called = TRUE]
                                   \o <<[fn |-> fn, pc |-> Entry(fn),
                                         called |-> FALSE]>>,
                   ![t].overlapped = @ \/ Overlaps(t)]
    /\ locals' = [locals EXCEPT ![FrameId(t, Depth(t) + 1)] = params]

\* return value: the frame and its variables go; the caller of the
\* function, or of the whole call, gets the value
Leave(t, value) ==
    IF Depth(t) = 1
    THEN /\ tasks' = [tasks EXCEPT ![t].stack = <<>>,
                                   ![t].status = "done",
                                   ![t].result = Return(value),
                                   ![t].overlapped = @ \/ Overlaps(t)]
         /\ locals' = [locals EXCEPT ![FrameId(t, 1)] = NoLocals]
    ELSE /\ tasks' = [tasks EXCEPT
                        ![t].stack = SubSeq(@, 1, Depth(t) - 1),
                        ![t].overlapped = @ \/ Overlaps(t)]
         /\ locals' = [c \in DOMAIN locals |->
                         IF c = FrameId(t, Depth(t)) THEN NoLocals
                         ELSE IF c = FrameId(t, Depth(t) - 1)
                              THEN [locals[c] EXCEPT !.ret = value]
                              ELSE locals[c]]

\* an exception nobody catches: every frame of the call goes
Raise(t, thrown) ==
    /\ tasks' = [tasks EXCEPT ![t].stack = <<>>,
                              ![t].status = "done",
                              ![t].result = thrown,
                              ![t].overlapped = @ \/ Overlaps(t)]
    /\ locals' = [c \in DOMAIN locals |->
                    IF \E d \in 1..Depth(t) : c = FrameId(t, d) THEN NoLocals
                    ELSE locals[c]]

\* a caller calls one of the functions
Invoke(t) ==
    /\ tasks[t].status = "idle"
    /\ \E call \in ConcCalls :
         /\ tasks' = [tasks EXCEPT
                        ![t] = [Idle EXCEPT
                                  !.status = "running",
                                  !.call = call,
                                  !.stack = <<[fn |-> call.fn,
                                               pc |-> Entry(call.fn),
                                               called |-> FALSE]>>]]
         /\ locals' = [locals EXCEPT
                         ![FrameId(t, 1)] =
                             IF call.fn = "getRandomString"
                             THEN [NoLocals EXCEPT !.length = call.a.length]
                             ELSE IF call.fn = "getRandomBytes"
                                  THEN [NoLocals EXCEPT !.size = call.a.size]
                                  ELSE NoLocals]
    /\ UNCHANGED <<op, args, res, obs, sent>>

\* a caller takes the outcome of its call
Settle(t) ==
    /\ tasks[t].status = "done"
    /\ tasks' = [tasks EXCEPT ![t] = Idle]
    /\ UNCHANGED <<op, args, res, obs, sent, locals>>

\* one statement of getRandomString
StepGetRandomString(t) ==
    /\ \/ /\ At(t, "getRandomString", 141)
          /\ Goto(t, 144, [Mine(t) EXCEPT !.str = <<>>, !.count = 0])
       \/ /\ At(t, "getRandomString", 144)
          /\ Mine(t).count < Mine(t).length
          /\ tasks' = [tasks EXCEPT ![t].drawn = @ + 1,
                                    ![t].overlapped = @ \/ Overlaps(t)]
          /\ locals' = [locals EXCEPT
                          ![FrameId(t, Depth(t))] =
                              [Mine(t) EXCEPT
                                 !.str = @ \o <<letters[Draw(tasks[t].call.tape,
                                                             tasks[t].drawn) + 1]>>,
                                 !.count = @ + 1]]
       \/ /\ At(t, "getRandomString", 144)
          /\ ~(Mine(t).count < Mine(t).length)
          /\ Goto(t, 148, Mine(t))
       \/ /\ At(t, "getRandomString", 148)
          /\ Leave(t, JSString(Mine(t).str))
    /\ UNCHANGED <<op, args, res, obs, sent>>

\* one statement of getRandomBytes
StepGetRandomBytes(t) ==
    /\ \/ /\ At(t, "getRandomBytes", 129)
          /\ LET buffer == BufferAlloc(Mine(t).size) IN
             IF buffer.threw THEN Raise(t, buffer)
             ELSE Goto(t, 130, [Mine(t) EXCEPT !.buffer = buffer.value.data])
       \/ /\ At(t, "getRandomBytes", 130)
          /\ IF ~Frame(t).called
             THEN Enter(t, "getRandomString",
                        [NoLocals EXCEPT !.length = Mine(t).size])
             ELSE Goto(t, 132, [Mine(t) EXCEPT !.str = Mine(t).ret.data])
       \/ /\ At(t, "getRandomBytes", 132)
          /\ Goto(t, 133, [Mine(t) EXCEPT
                             !.buffer = BufferWrite(Mine(t).buffer, Mine(t).str)])
       \/ /\ At(t, "getRandomBytes", 133)
          /\ Leave(t, JSBuffer(Mine(t).buffer))
    /\ UNCHANGED <<op, args, res, obs, sent>>

\* one statement of genAESKeyAndIv
StepGenAESKeyAndIv(t) ==
    /\ \/ /\ At(t, "genAESKeyAndIv", 13)
          /\ Goto(t, 15, [Mine(t) EXCEPT
                            !.keyLength =
                                IF tasks[t].call.a.keyLength = Omitted
                                THEN DefaultKeyLength
                                ELSE tasks[t].call.a.keyLength])
       \/ /\ At(t, "genAESKeyAndIv", 15)
          /\ IF ~Frame(t).called
             THEN Enter(t, "getRandomBytes",
                        [NoLocals EXCEPT !.size = Mine(t).keyLength \div 8])
             ELSE Goto(t, 16, [Mine(t) EXCEPT !.key = Mine(t).ret.data])
       \/ /\ At(t, "genAESKeyAndIv", 16)
          /\ IF ~Frame(t).called
             THEN Enter(t, "getRandomBytes",
                        [NoLocals EXCEPT !.size = IvBits \div 8])
             ELSE Goto(t, 18, [Mine(t) EXCEPT !.iv = Mine(t).ret.data])
       \/ /\ At(t, "genAESKeyAndIv", 18)
          /\ Leave(t, [kind |-> "object", key |-> Mine(t).key, iv |-> Mine(t).iv])
    /\ UNCHANGED <<op, args, res, obs, sent>>

\* one statement of aesEncrypt
StepAesEncrypt(t) ==
    /\ LET a == tasks[t].call.a
           outputEncoding == Default(a.outputEncoding, "base64")
       IN
       \/ /\ At(t, "aesEncrypt", 37)
          /\ LET made == createCipheriv(a.algorithm, a.key, a.iv) IN
             IF made.threw THEN Raise(t, made)
             ELSE Goto(t, 38, [Mine(t) EXCEPT
                                 !.cipheriv = [key |-> made.value.key,
                                               iv |-> made.value.iv,
                                               final |-> NoCall,
                                               pending |-> <<>>]])
       \/ /\ At(t, "aesEncrypt", 38)
          /\ LET output == CipherOutput(Mine(t).cipheriv, a.content)
                 first == DecoderWrite(outputEncoding, output.update)
             IN Goto(t, 39, [Mine(t) EXCEPT
                               !.encryptedData = first.text,
                               !.cipheriv.final = output.final,
                               !.cipheriv.pending = first.pending])
       \/ /\ At(t, "aesEncrypt", 39)
          /\ LET final == Mine(t).cipheriv.final IN
             IF final.threw THEN Raise(t, final)
             ELSE Goto(t, 40, [Mine(t) EXCEPT
                                 !.encryptedData =
                                     @ \o DecoderEnd(outputEncoding,
                                                     Mine(t).cipheriv.pending,
                                                     final.value.data)])
       \/ /\ At(t, "aesEncrypt", 40)
          /\ Leave(t, JSString(Mine(t).encryptedData))
    /\ UNCHANGED <<op, args, res, obs, sent>>

\* one statement of aesDecrypt
StepAesDecrypt(t) ==
    /\ LET a == tasks[t].call.a
           inputEncoding == Default(a.inputEncoding, "base64")
           outputEncoding == Default(a.outputEncoding, "utf8")
       IN
       \/ /\ At(t, "aesDecrypt", 59)
          /\ LET made == createCipheriv(a.algorithm, a.key, a.iv) IN
             IF made.threw THEN Raise(t, made)
             ELSE Goto(t, 60, [Mine(t) EXCEPT
                                 !.cipheriv = [key |-> made.value.key,
                                               iv |-> made.value.iv,
                                               final |-> NoCall,
                                               pending |-> <<>>]])
       \/ /\ At(t, "aesDecrypt", 60)
          /\ LET output == DecipherOutput(Mine(t).cipheriv,
                                          BufferFrom(a.content, inputEncoding))
                 first == DecoderWrite(outputEncoding, output.update)
             IN Goto(t, 61, [Mine(t) EXCEPT
                               !.decryptedData = first.text,
                               !.cipheriv.final = output.final,
                               !.cipheriv.pending = first.pending])
       \/ /\ At(t, "aesDecrypt", 61)
          /\ LET final == Mine(t).cipheriv.final IN
             IF final.threw THEN Raise(t, final)
             ELSE Goto(t, 62, [Mine(t) EXCEPT
                                 !.decryptedData =
                                     @ \o DecoderEnd(outputEncoding,
                                                     Mine(t).cipheriv.pending,
                                                     final.value.data)])
       \/ /\ At(t, "aesDecrypt", 62)
          /\ Leave(t, JSString(Mine(t).decryptedData))
    /\ UNCHANGED <<op, args, res, obs, sent>>

\* one statement of rsaEncrypt
StepRsaEncrypt(t) ==
    /\ LET a == tasks[t].call.a IN
       \/ /\ At(t, "rsaEncrypt", 80)
          /\ Goto(t, 82, [Mine(t) EXCEPT
                            !.splitBarBuffer = BufferFrom(a.splitBar, "utf8")])
       \/ /\ At(t, "rsaEncrypt", 82)
          /\ Goto(t, 86, [Mine(t) EXCEPT
                            !.restLength =
                                restLength(a.content, a.splitBar, a.keyLength)])
       \/ /\ At(t, "rsaEncrypt", 86)
          /\ IF ~Frame(t).called
             THEN Enter(t, "getRandomBytes",
                        [NoLocals EXCEPT !.size = Mine(t).restLength])
             ELSE Goto(t, 89, [Mine(t) EXCEPT
                                 !.contentNeedCrypt =
                                     contentNeedCrypt(Mine(t).ret.data,
                                                      a.splitBar, a.content)])
       \/ /\ At(t, "rsaEncrypt", 89)
          /\ LET file == ReadFileSync(a.pubKeyPath) IN
             IF file.threw THEN Raise(t, file)
             ELSE LET enc == publicEncrypt(file.value.key,
                                           Mine(t).contentNeedCrypt)
                  IN IF enc.threw THEN Raise(t, enc)
                     ELSE Goto(t, 93, [Mine(t) EXCEPT !.res = enc.value])
       \/ /\ At(t, "rsaEncrypt", 93)
          /\ Leave(t, JSString(BufferToString(Mine(t).res.data,
                                              Default(a.outputEncoding,
                                                      "base64"))))
    /\ UNCHANGED <<op, args, res, obs, sent>>

\* one statement of rsaDecrypt
StepRsaDecrypt(t) ==
    /\ LET a == tasks[t].call.a IN
       \/ /\ At(t, "rsaDecrypt", 112)
          /\ Goto(t, 113, [Mine(t) EXCEPT
                             !.contentNeedDecrypt =
                                 BufferFrom(a.content,
                                            Default(a.inputEncoding, "base64"))])
       \/ /\ At(t, "rsaDecrypt", 113)
          /\ LET file == ReadFileSync(a.priKeyPath) IN
             IF file.threw THEN Raise(t, file)
             ELSE LET block == privateDecrypt(file.value.key,
                                              Mine(t).contentNeedDecrypt)
                  IN IF block.threw THEN Raise(t, block)
                     ELSE Goto(t, 118, [Mine(t) EXCEPT
                                          !.decryptedData =
                                              decryptedData(block,
                                                            a.outputEncoding)])
       \/ /\ At(t, "rsaDecrypt", 118)
          /\ Goto(t, 120, [Mine(t) EXCEPT
                             !.res = Index(Split(Mine(t).decryptedData,
                                                 a.splitBar), 1)])
       \/ /\ At(t, "rsaDecrypt", 120)
          /\ Leave(t, Mine(t).res)
    /\ UNCHANGED <<op, args, res, obs, sent>>

NextConc ==
    \E t \in Tasks :
        \/ Invoke(t)
        \/ Settle(t)
        \/ StepGetRandomString(t)
        \/ StepGetRandomBytes(t)
        \/ StepGenAESKeyAndIv(t)
        \/ StepAesEncrypt(t)
        \/ StepAesDecrypt(t)
        \/ StepRsaEncrypt(t)
        \/ StepRsaDecrypt(t)

NextAes ==
    \/ Reset
    \/ CallGenAESKeyAndIv
    \/ CallAesEncrypt
    \/ CallAesDecrypt

NextRandom ==
    \/ Reset
    \/ CallGetRandomString
    \/ CallGetRandomBytes
    \/ CallGenAESKeyAndIv

NextRsa ==
    \/ Reset
    \/ CallRsaEncrypt
    \/ CallRsaDecrypt

Next ==
    \/ NextRandom
    \/ NextAes
    \/ NextRsa
    \/ NextConc

\* the random byte source and the AES key material
SpecRandom == Init /\ [][NextRandom]_vars

\* the AES calls, with keys from genAESKeyAndIv
SpecAes == Init /\ [][NextAes]_vars

\* calls in progress at the same time
SpecConc == Init /\ [][NextConc]_vars

\* the RSA padding protocol
SpecRsa == Init /\ [][NextRsa]_vars

Spec == Init /\ [][Next]_vars

-----------------------------------------------------------------------------
(* Properties: notions shared by the claims *)

\* the position of the first occurrence of s in t (s occurs in t)
FirstOccurrence(t, s) ==
    CHOOSE q \in 1..(Len(t) + 1) :
        MatchAt(t, s, q) /\ \A r \in 1..(q - 1) : ~MatchAt(t, s, r)

\* the position of the first occurrence of s in t at or after `from`,
\* Len(t) + 1 when there is none
NextOccurrence(t, s, from) ==
    IF \E q \in from..Len(t) : MatchAt(t, s, q)
    THEN CHOOSE q \in from..Len(t) :
             MatchAt(t, s, q) /\ \A r \in from..(q - 1) : ~MatchAt(t, s, r)
    ELSE Len(t) + 1

\* the segment of t after the first occurrence of s, up to the next one
SegmentAfterFirst(t, s) ==
    LET start == FirstOccurrence(t, s) + Len(s) IN
    SubSeq(t, start, NextOccurrence(t, s, start) - 1)

HasNonLetter(b) == \E i \in 1..Len(b) : ~IsLetter(b[i])

WellFormedUtf8(b) == Utf8Encode(Utf8Decode(b)) = b

\* the filler length of the rsaEncrypt call in args
EncRest == restLength(args.content, args.splitBar, args.keyLength)

\* the filler length of the rsaEncrypt call whose ciphertext was decrypted
SentRest ==
    restLength(sent.call.content, sent.call.splitBar, sent.call.keyLength)

\* rsaDecrypt was given the ciphertext of rsaEncrypt unchanged, with the
\* private key of the same pair and the encoding the ciphertext is in
MatchingDecrypt ==
    /\ op = "rsaDecrypt"
    /\ args.content = sent.ciphertext
    /\ args.priKeyPath = sent.call.pubKeyPath
    /\ Default(args.inputEncoding, "base64")
         = Default(sent.call.outputEncoding, "base64")

\* the case of the RSA round trip: matching keys, the same non-empty
\* delimiter on both sides, a payload that does not hold the delimiter
RoundTripCase ==
    /\ MatchingDecrypt
    /\ args.splitBar = sent.call.splitBar
    /\ args.splitBar # <<>>
    /\ ~Occurs(sent.call.content, Utf8Encode(args.splitBar))

\* rsaDecrypt returned a string that holds exactly the payload's bytes
ReturnsPayload ==
    /\ ~res.threw
    /\ res.value.kind = "string"
    /\ BufferFrom(res.value.data, Default(args.outputEncoding, "utf8"))
         = sent.call.content

\* the case of the AES round trip: aesDecrypt is given the ciphertext, the
\* algorithm, the key and the iv of the aesEncrypt call before it, and reads
\* the ciphertext in the encoding it was written in
AesRoundTripCase ==
    /\ op = "aesDecrypt"
    /\ args.content = sent.ciphertext
    /\ args.algorithm = sent.call.algorithm
    /\ args.key = sent.call.key
    /\ args.iv = sent.call.iv
    /\ Default(args.inputEncoding, "base64")
         = Default(sent.call.outputEncoding, "base64")

\* aesDecrypt returned a string that holds exactly the payload's bytes
AesReturnsPayload ==
    /\ ~res.threw
    /\ res.value.kind = "string"
    /\ BufferFrom(res.value.data, Default(args.outputEncoding, "utf8"))
         = sent.call.content

-----------------------------------------------------------------------------
(* C1: rsaEncrypt with restLength < 0 fails before any filler is asked     *)
(* for: the call throws, getRandomBytes is never called (so never with a   *)
(* negative size) and the RSA primitive is not invoked.  The code asks     *)
(* getRandomBytes for a negative size; Buffer.alloc rejects it.            *)
C1_OverflowRejectedBeforePadding ==
    (op = "rsaEncrypt" /\ EncRest < 0) =>
        /\ res.threw
        /\ obs.randSizes = <<>>
        /\ ~obs.primitiveCalled

(* C2: rsaDecrypt throws when the delimiter does not occur in the          *)
(* decrypted, rendered text.  The code returns undefined.                  *)
C2_MissingDelimiterThrows ==
    (op = "rsaDecrypt" /\ obs.decrypted
       /\ ~Occurs(obs.decryptedData, args.splitBar)) => res.threw

(* C3 as stated: in every round-trip case rsaDecrypt returns exactly the   *)
(* payload, whatever the filler.                                           *)
C3_RoundTripAnyDelimiter == RoundTripCase => ReturnsPayload

(* C3 as amended: in every round-trip case where the delimiter has a byte  *)
(* outside a-z, the payload is well-formed UTF-8 and the decrypted text is *)
(* rendered as UTF-8 (the default), rsaDecrypt returns the payload as      *)
(* text, whatever the filler.                                              *)
C3_RoundTrip ==
    (/\ RoundTripCase
     /\ HasNonLetter(Utf8Encode(args.splitBar))
     /\ WellFormedUtf8(sent.call.content)
     /\ Default(args.outputEncoding, "utf8") = "utf8") =>
        /\ ReturnsPayload
        /\ res.value.data = Utf8Decode(sent.call.content)

C3_Witness ==
    /\ RoundTripCase
    /\ HasNonLetter(Utf8Encode(args.splitBar))
    /\ Default(args.outputEncoding, "utf8") = "utf8"
    /\ SentRest > 0
    /\ sent.call.content # <<>>
    /\ res.value = JSString(Utf8Decode(sent.call.content))

(* C4: the buffer rsaEncrypt hands to the RSA primitive is                 *)
(* filler ++ splitBar ++ content, the filler being restLength >= 0 letters *)
(* and the whole keyLength/8 bytes long.                                   *)
C4_PaddedLayout ==
    (op = "rsaEncrypt" /\ obs.primitiveCalled) =>
        LET k == args.keyLength \div 8
            bar == Utf8Encode(args.splitBar)
            rest == k - Len(bar) - Len(args.content)
            padded == obs.primitiveIn
        IN /\ rest >= 0
           /\ Len(padded) = k
           /\ SubSeq(padded, 1, rest)
                = [i \in 1..rest |-> letters[args.draws[i] + 1]]
           /\ SubSeq(padded, rest + 1, rest + Len(bar)) = bar
           /\ SubSeq(padded, rest + Len(bar) + 1, k) = args.content

C4_Witness ==
    /\ op = "rsaEncrypt"
    /\ obs.primitiveCalled
    /\ EncRest = 0
    /\ args.content # <<>>
    /\ ~res.threw

(* C5: getRandomBytes(size) for size >= 0 returns a buffer of exactly size *)
(* bytes, each the code of a letter a-z; the empty buffer for size 0.      *)
C5_RandomBytes ==
    (op = "getRandomBytes" /\ args.size >= 0) =>
        /\ ~res.threw
        /\ res.value.kind = "buffer"
        /\ Len(res.value.data) = args.size
        /\ \A i \in 1..Len(res.value.data) : IsLetter(res.value.data[i])

C5_Witness ==
    /\ op = "getRandomBytes"
    /\ args.size = 16
    /\ Len(res.value.data) = 16

(* C6 as amended: rsaDecrypt returns element 1 of the split of the         *)
(* decrypted text: for a non-empty delimiter that occurs in the text, the  *)
(* segment after its first occurrence up to the next one.  With matching   *)
(* keys and delimiter and UTF-8 output the text is filler, delimiter and   *)
(* the payload as text; if the first occurrence is the real delimiter and  *)
(* the payload holds the delimiter, the result is the payload cut at its   *)
(* first delimiter; if an occurrence starts in the filler, the result is   *)
(* the segment after that earlier occurrence (which may or may not equal   *)
(* the payload).                                                           *)
C6_SplitSegment ==
    (op = "rsaDecrypt" /\ obs.decrypted) =>
        LET t == obs.decryptedData
            s == args.splitBar
        IN
        /\ (s # <<>> /\ Occurs(t, s)) =>
               res = Return(JSString(SegmentAfterFirst(t, s)))
        /\ (/\ MatchingDecrypt
            /\ s = sent.call.splitBar
            /\ s # <<>>
            /\ Default(args.outputEncoding, "utf8") = "utf8") =>
               LET payload == Utf8Decode(sent.call.content)
                   first == FirstOccurrence(t, s)
               IN /\ t = SubSeq(sent.padded, 1, SentRest) \o s \o payload
                  /\ (first = SentRest + 1 /\ Occurs(payload, s)) =>
                         res.value.data
                           = SubSeq(payload, 1, FirstOccurrence(payload, s) - 1)
                  /\ first < SentRest + 1 =>
                         res.value.data
                           = SubSeq(t, first + Len(s),
                                    NextOccurrence(t, s, first + Len(s)) - 1)

(* C6 as stated: moreover, when an occurrence of the delimiter starts in   *)
(* the filler, the result is not the payload.                              *)
C6_CollisionNeverPayload ==
    /\ C6_SplitSegment
    /\ (/\ MatchingDecrypt
        /\ obs.decrypted
        /\ args.splitBar = sent.call.splitBar
        /\ args.splitBar # <<>>
        /\ Default(args.outputEncoding, "utf8") = "utf8"
        /\ FirstOccurrence(obs.decryptedData, args.splitBar) < SentRest + 1) =>
           res.value.data # Utf8Decode(sent.call.content)

\* the payload "x|" under the delimiter "|" comes back as "x"
C6_Witness ==
    /\ MatchingDecrypt
    /\ args.splitBar = sent.call.splitBar
    /\ args.splitBar = <<124>>
    /\ sent.call.content = <<120, 124>>
    /\ Default(args.outputEncoding, "utf8") = "utf8"
    /\ res = Return(JSString(<<120>>))

(* C7 as stated: aesDecrypt of what aesEncrypt returned, with the same      *)
(* algorithm, key and iv and the input encoding equal to the output        *)
(* encoding of aesEncrypt, returns the payload, for every payload.         *)
C7_RoundTripAnyPayload == AesRoundTripCase => AesReturnsPayload

(* C7 as amended: the same round trip returns the payload when the         *)
(* decrypted text is rendered as latin1 or hex, for every payload, bytes 0 *)
(* and 255 included; rendered as UTF-8 (the default) it returns the        *)
(* payload when the payload is well-formed UTF-8, and a text with          *)
(* replacement characters otherwise.                                       *)
C7_RoundTrip ==
    AesRoundTripCase =>
        /\ ~res.threw
        /\ res.value.data
             = BufferToString(sent.call.content,
                              Default(args.outputEncoding, "utf8"))
        /\ (Default(args.outputEncoding, "utf8") \in {"latin1", "hex"}
               \/ WellFormedUtf8(sent.call.content)) <=> AesReturnsPayload

\* the payload of bytes 0 and 255 came back through hex ciphertext
C7_Witness ==
    /\ AesRoundTripCase
    /\ sent.call.content = <<0, 255>>
    /\ Default(sent.call.outputEncoding, "base64") = "hex"
    /\ args.outputEncoding = "latin1"
    /\ res = Return(JSString(<<0, 255>>))

(* C8: genAESKeyAndIv(keyLength) returns a key of keyLength/8 bytes and an *)
(* iv of 16 bytes; the key has 32 bytes when keyLength is left out.        *)
C8_KeyAndIvLengths ==
    op = "genAESKeyAndIv" =>
        /\ ~res.threw
        /\ Len(res.value.key)
             = (IF args.keyLength = Omitted THEN 32 ELSE args.keyLength \div 8)
        /\ Len(res.value.iv) = 16

C8_Witness ==
    /\ op = "genAESKeyAndIv"
    /\ args.keyLength = 128
    /\ Len(res.value.key) = 16
    /\ Len(res.value.iv) = 16

(* C9: under every interleaving of the statements of two callers' calls,  *)
(* a call that has ended has the outcome it has when it runs alone with    *)
(* the same arguments, draws and key files: the value returned or the      *)
(* error thrown, never a part of either; a call still running has shown no *)
(* result; and once it has ended, returned or failed, none of its          *)
(* variables is left.                                                      *)
C9_CallsIndependent ==
    \A t \in Tasks :
        /\ tasks[t].status = "done" => tasks[t].result = Outcome(tasks[t].call)
        /\ tasks[t].status # "done" => tasks[t].result = NoCall
        /\ tasks[t].status # "running" =>
               /\ tasks[t].stack = <<>>
               /\ \A d \in Depths : locals[FrameId(t, d)] = NoLocals

\* an rsaEncrypt call that returned and a getRandomBytes call that threw,
\* each having run statements while the other was in progress
C9_Witness ==
    /\ tasks[1].status = "done"
    /\ tasks[1].call.fn = "rsaEncrypt"
    /\ ~tasks[1].result.threw
    /\ tasks[1].overlapped
    /\ tasks[2].status = "done"
    /\ tasks[2].call.fn = "getRandomBytes"
    /\ tasks[2].result.threw
    /\ tasks[2].overlapped

(* C10: when the delimiter has a byte outside a-z, its first occurrence in *)
(* the padded buffer starts exactly at offset restLength: none starts in   *)
(* the filler, not even one that runs over into the delimiter.             *)
C10_FirstOccurrenceIsDelimiter ==
    (/\ op = "rsaEncrypt"
     /\ obs.primitiveCalled
     /\ HasNonLetter(Utf8Encode(args.splitBar))) =>
        /\ MatchAt(obs.primitiveIn, Utf8Encode(args.splitBar), EncRest + 1)
        /\ \A q \in 1..EncRest :
               ~MatchAt(obs.primitiveIn, Utf8Encode(args.splitBar), q)

\* the delimiter "a|" right after a filler that ends in "a"
C10_Witness ==
    /\ op = "rsaEncrypt"
    /\ obs.primitiveCalled
    /\ args.splitBar = <<97, 124>>
    /\ EncRest >= 1
    /\ obs.primitiveIn[EncRest] = 97

=============================================================================
